---- MODULE Spec2Model ----
(***************************************************************************)
(* Analytics route of the Whop revenue dashboard (src/app/page.tsx).       *)
(*                                                                         *)
(* The file holds two revisions of the route: lines 39-293 are the earlier *)
(* one, lines 295-661 the later one (printed with the lines it replaced).  *)
(* The model follows the later revision: retryWithBackoff, parseTimestamp  *)
(* with the seconds/milliseconds threshold, the GET handler and the        *)
(* metrics it computes.                                                    *)
(*                                                                         *)
(* Representation.                                                         *)
(*  - A JavaScript number that is a non-negative integer is a sequence of  *)
(*    base-1000 limbs, least significant first, without leading zeros      *)
(*    (<<>> is 0), so that 10^12 and 8.64*10^15 are exact.                 *)
(*  - A valid Date is [day |-> d, ms |-> m]: m milliseconds into UTC day d *)
(*    (days since 1970-01-01); InvalidDate is the Date whose time is NaN.  *)
(*  - Every `new Date()` is a clock read of its own: the k-th read of an   *)
(*    invocation returns now + (k - 1) * tick.  getDaysAgo subtracts       *)
(*    calendar days in the time zone of the process.                       *)
(*  - Payment amounts are integer numbers of minor units; x / 100 at the   *)
(*    output boundary, x an integer, is the decimal [units, cents].        *)
(*    Quotients and their sums and products (the monthly prices, the       *)
(*    churn rate, the per-product revenue) are binary64 numbers.           *)
(***************************************************************************)
EXTENDS Integers, Sequences, FiniteSets, TLC

VARIABLES
    companyId,   \* process.env.NEXT_PUBLIC_WHOP_COMPANY_ID
    source,      \* the data source: collection name -> records it lists
    now,         \* the first clock reading of the computation
    tick,        \* milliseconds the clock advances from one reading to the next
    zone,        \* the time zone of the process
    phase,       \* "Idle" | "Fetching": where the GET invocation is
    fetchers,    \* collection name -> the frame of its retryWithBackoff call
    all,         \* the Promise.all the invocation awaits
    emitted,     \* the responses the invocation has returned, in order
    callsAtResponse, \* history: the calls of each list operation made by then
    value,       \* argument of a function applied in isolation
    result       \* what that function returned

vars == <<companyId, source, now, tick, zone, phase, fetchers, all, emitted, callsAtResponse, value, result>>

\* the clock of the invocation
Clock == [now |-> now, tick |-> tick, zone |-> zone]
ClockIs(c) == now = c.now /\ tick = c.tick /\ zone = c.zone

\* JavaScript values are tagged records, so that any two can be compared.
Undefined == [t |-> "undefined"]
Null == [t |-> "null"]
Str(s) == [t |-> "string", s |-> s]
Int32(v) == [t |-> "number", v |-> v]
Pending == [t |-> "pending"]

\* x === null || x === undefined, the test of ?? and ?.
Nullish(x) == x.t = "null" \/ x.t = "undefined"

\* !x
Falsy(x) ==
    \/ Nullish(x)
    \/ x.t = "string" /\ x.s = ""
    \/ x.t = "number" /\ x.v = 0

(***************************************************************************)
(* Numbers                                                                 *)
(***************************************************************************)
RECURSIVE LimbsOf(_)
LimbsOf(n) == IF n = 0 THEN <<>> ELSE <<n % 1000>> \o LimbsOf(n \div 1000)

\* x * 1000
Times1000(x) == IF x = <<>> THEN <<>> ELSE <<0>> \o x

Front(s) == SubSeq(s, 1, Len(s) - 1)

RECURSIVE Greater(_, _)
Greater(x, y) ==
    IF Len(x) # Len(y) THEN Len(x) > Len(y)
    ELSE /\ x # <<>>
         /\ \/ x[Len(x)] > y[Len(y)]
            \/ x[Len(x)] = y[Len(y)] /\ Greater(Front(x), Front(y))

\* 1_000_000_000_000
MsThreshold == <<0, 0, 0, 0, 1>>

\* 8.64e15, the largest time value of a Date (ECMAScript TimeClip)
MaxTime == <<0, 0, 0, 0, 640, 8>>

\* <<q, r>> with s = q * 86400 + r, for s a number of seconds
RECURSIVE DivMod86400(_)
DivMod86400(s) ==
    IF s = <<>> THEN <<0, 0>>
    ELSE LET hi == DivMod86400(Tail(s))
             cur == hi[2] * 1000 + s[1]
         IN  <<hi[1] * 1000 + cur \div 86400, cur % 86400>>

InvalidDate == [valid |-> FALSE]

\* new Date(ms) for a number of milliseconds
NewDate(ms) ==
    IF Greater(ms, MaxTime) THEN InvalidDate
    ELSE LET qr == DivMod86400(IF ms = <<>> THEN <<>> ELSE Tail(ms))
             milli == IF ms = <<>> THEN 0 ELSE ms[1]
         IN  [valid |-> TRUE, day |-> qr[1], ms |-> qr[2] * 1000 + milli]

\* date.getTime() is NaN
IsInvalid(date) == ~date.valid

\* a <= b, a >= b on valid Dates
DateLeq(a, b) == a.day < b.day \/ (a.day = b.day /\ a.ms <= b.ms)
DateGeq(a, b) == DateLeq(b, a)

MsPerDay == 86400000

\* the Date ms milliseconds after date (before it when ms < 0)
Shift(date, ms) ==
    [valid |-> TRUE,
     day |-> date.day + (date.ms + ms) \div MsPerDay,
     ms |-> (date.ms + ms) % MsPerDay]

\* days since 1970-01-01 of the civil date y-m-d (proleptic Gregorian)
DaysFromCivil(y, m, d) ==
    LET yy == IF m <= 2 THEN y - 1 ELSE y
        era == yy \div 400
        yoe == yy - era * 400
        mp == IF m > 2 THEN m - 3 ELSE m + 9
        doy == (153 * mp + 2) \div 5 + d - 1
        doe == yoe * 365 + yoe \div 4 - yoe \div 100 + doy
    IN  era * 146097 + doe - 719468

\* date.toISOString().split("T")[0]: the UTC calendar date <<year, month, day>>
IsoDate(date) ==
    LET z == date.day + 719468
        era == z \div 146097
        doe == z - era * 146097
        yoe == (doe - doe \div 1460 + doe \div 36524 - doe \div 146096) \div 365
        doy == doe - (365 * yoe + yoe \div 4 - yoe \div 100)
        mp == (5 * doy + 2) \div 153
        d == doy - (153 * mp + 2) \div 5 + 1
        m == IF mp < 10 THEN mp + 3 ELSE mp - 9
        y == yoe + era * 400
    IN  <<IF m <= 2 THEN y + 1 ELSE y, m, d>>

(***************************************************************************)
(* Values given to parseTimestamp                                          *)
(*   Null, Undefined                                                       *)
(*   [t |-> "number", n |-> limbs]                           1700000000    *)
(*   [t |-> "string", form |-> "digits", n |-> limbs]        "1700000000"  *)
(*   [t |-> "string", form |-> "iso", y, m, d, ms]   "2024-10-04T12:00Z"   *)
(*   [t |-> "string", form |-> "blank"]                      "", "  "      *)
(*   [t |-> "string", form |-> "text"]                       "not-a-date"  *)
(***************************************************************************)
Num(n) == [t |-> "number", n |-> n]
Digits(n) == [t |-> "string", form |-> "digits", n |-> n]
Iso(y, m, d, ms) == [t |-> "string", form |-> "iso", y |-> y, m |-> m, d |-> d, ms |-> ms]
Blank == [t |-> "string", form |-> "blank"]
Text == [t |-> "string", form |-> "text"]

NotANumber == [finite |-> FALSE]
Finite(n) == [finite |-> TRUE, n |-> n]

\* Number(value) for a string
NumberOf(v) ==
    IF v.form = "digits" THEN Finite(v.n)
    ELSE IF v.form = "blank" THEN Finite(<<>>)
    ELSE NotANumber

\* new Date(value as string)
DateFromString(v) ==
    IF v.t = "number" THEN NewDate(v.n)
    ELSE IF v.form = "iso"
         THEN [valid |-> TRUE, day |-> DaysFromCivil(v.y, v.m, v.d), ms |-> v.ms]
    ELSE InvalidDate

\* the same, with every number read as epoch seconds
parseTimestampSecondsOnly(v) ==
    IF Nullish(v) THEN Null
    ELSE LET rawNumber == IF v.t = "string" /\ v.form # "blank" THEN NumberOf(v)
                          ELSE IF v.t = "number" THEN Finite(v.n)
                          ELSE NotANumber
             fromNumber == NewDate(Times1000(rawNumber.n))
             fromString == DateFromString(v)
         IN  IF rawNumber.finite /\ ~IsInvalid(fromNumber) THEN fromNumber
             ELSE IF IsInvalid(fromString) THEN Null ELSE fromString

parseTimestamp(v) ==
    IF Nullish(v) THEN Null
    ELSE LET rawNumber == IF v.t = "string" /\ v.form # "blank" THEN NumberOf(v)
                          ELSE IF v.t = "number" THEN Finite(v.n)
                          ELSE NotANumber
             milliseconds == IF Greater(rawNumber.n, MsThreshold) THEN rawNumber.n
                             ELSE Times1000(rawNumber.n)
             fromNumber == NewDate(milliseconds)
             fromString == DateFromString(v)
         IN  IF rawNumber.finite /\ ~IsInvalid(fromNumber) THEN fromNumber
             ELSE IF IsInvalid(fromString) THEN Null ELSE fromString

(***************************************************************************)
(* Records of the data source                                              *)
(*   membership [status, created_at, canceled_at, plan]                    *)
(*   plan       [t |-> "plan", id, plan_type, renewal_price, billing_period]*)
(*   payment    [created_at, usd_total, total, subtotal, product]          *)
(*   product    [t |-> "product", id, title]                               *)
(* A field that the record does not carry is Undefined.                    *)
(***************************************************************************)
Plan(id, type, price, period) ==
    [t |-> "plan", id |-> id, plan_type |-> type, renewal_price |-> price,
     billing_period |-> period]
PlanFields == {"id", "plan_type", "renewal_price", "billing_period"}

Membership(status, created, canceled, plan) ==
    [status |-> status, created_at |-> created, canceled_at |-> canceled, plan |-> plan]

Payment(created, usd, total, subtotal, product) ==
    [created_at |-> created, usd_total |-> usd, total |-> total, subtotal |-> subtotal,
     product |-> product]

Product(id, title) == [t |-> "product", id |-> id, title |-> title]

\* a JavaScript array, as a value that can be told from null and undefined
Array(items) == [t |-> "array", items |-> items]

\* response?.data || []
DataOf(page) ==
    IF Nullish(page) \/ "data" \notin DOMAIN page THEN <<>>
    ELSE IF Falsy(page.data) THEN <<>>
    ELSE page.data.items

(***************************************************************************)
(* Binary floating point                                                   *)
(*   The monthly prices, the churn rate and the per-product revenue are    *)
(*   quotients, sums and products of JavaScript numbers (IEEE 754          *)
(*   binary64, round to nearest, ties to even).  A positive number is      *)
(*   [bits, exp]: 53 bits, the first of them 1, read as the binary         *)
(*   fraction 0.b1 b2 ... b53 times 2^exp; zero is                         *)
(*   [bits |-> <<>>, exp |-> 0].  The amounts are non-negative and far     *)
(*   from the overflow and subnormal ranges.                               *)
(***************************************************************************)
Precision == 53

FloatZero == [bits |-> <<>>, exp |-> 0]

Zeros(n) == [k \in 1..n |-> 0]

\* a + b + carry of two bit strings of one length, one bit longer (the carry
\* out first); the strings are added half by half, the lower half first
RECURSIVE AddWithCarry(_, _, _)
AddWithCarry(a, b, carry) ==
    IF carry = 0 /\ a = <<>> THEN <<0>>
    ELSE IF a = <<>> THEN <<1>>
    ELSE IF Len(a) = 1 THEN <<(a[1] + b[1] + carry) \div 2, (a[1] + b[1] + carry) % 2>>
    ELSE LET h == Len(a) \div 2
             low == AddWithCarry(SubSeq(a, h + 1, Len(a)), SubSeq(b, h + 1, Len(b)), carry)
             high == AddWithCarry(SubSeq(a, 1, h), SubSeq(b, 1, h), low[1])
         IN  high \o Tail(low)

AddBits(a, b) == AddWithCarry(a, b, 0)

\* the nearest number of 53 bits to 0.bits * 2^exp, bits[1] = 1
RoundToNearestEven(bits, exp) ==
    LET kept == SubSeq(bits, 1, Precision)
        rest == SubSeq(bits, Precision + 1, Len(bits))
        below == \E k \in 2..Len(rest) : rest[k] = 1
        up == rest # <<>> /\ rest[1] = 1 /\ (below \/ kept[Precision] = 1)
        next == AddBits(kept, Zeros(Precision - 1) \o <<1>>)
    IN  IF ~up THEN [bits |-> kept, exp |-> exp]
        ELSE IF next[1] = 1 THEN [bits |-> SubSeq(next, 1, Precision), exp |-> exp + 1]
        ELSE [bits |-> SubSeq(next, 2, Precision + 1), exp |-> exp]

\* the first n bits of rem / den < 1 and the remainder they leave, half by half
RECURSIVE LongDivision(_, _, _)
LongDivision(rem, den, n) ==
    IF n = 1
    THEN IF 2 * rem >= den THEN [bits |-> <<1>>, rem |-> 2 * rem - den]
         ELSE [bits |-> <<0>>, rem |-> 2 * rem]
    ELSE LET first == LongDivision(rem, den, n \div 2)
             second == LongDivision(first.rem, den, n - n \div 2)
         IN  [bits |-> first.bits \o second.bits, rem |-> second.rem]

\* n / d for integers n > 0, d > 0: the quotient, correctly rounded; one bit
\* more than the precision is computed, and one that tells whether more follows
RECURSIVE FloatQuotient(_, _, _)
FloatQuotient(num, den, exp) ==
    IF num >= den THEN FloatQuotient(num, 2 * den, exp + 1)
    ELSE IF 2 * num < den THEN FloatQuotient(2 * num, den, exp - 1)
    ELSE LET q == LongDivision(num, den, Precision + 1)
         IN  RoundToNearestEven(q.bits \o <<IF q.rem # 0 THEN 1 ELSE 0>>, exp)

FloatDiv(n, d) == IF n = 0 THEN FloatZero ELSE FloatQuotient(n, d, 0)

\* x + y
FloatAdd(x, y) ==
    IF x = FloatZero THEN y
    ELSE IF y = FloatZero THEN x
    ELSE LET hi == IF x.exp >= y.exp THEN x ELSE y
             lo == IF x.exp >= y.exp THEN y ELSE x
             shift == hi.exp - lo.exp
         IN  IF shift > Precision + 1 THEN hi
             ELSE LET sum == AddBits(hi.bits \o Zeros(shift), Zeros(shift) \o lo.bits)
                  IN  IF sum[1] = 1 THEN RoundToNearestEven(sum, hi.exp + 1)
                      ELSE RoundToNearestEven(Tail(sum), hi.exp)

\* bits * n for a natural n >= 1, as a longer bit string (doubling and adding)
RECURSIVE TimesBits(_, _)
TimesBits(bits, n) ==
    IF n = 1 THEN bits
    ELSE LET twice == TimesBits(bits, n \div 2) \o <<0>>
         IN  IF n % 2 = 0 THEN twice
             ELSE AddBits(twice, Zeros(Len(twice) - Len(bits)) \o bits)

RECURSIVE StripZeros(_)
StripZeros(bits) == IF bits[1] = 1 THEN bits ELSE StripZeros(Tail(bits))

\* x * n for a natural n >= 1: the exact product, rounded once
FloatTimes(x, n) ==
    IF x = FloatZero THEN FloatZero
    ELSE LET product == StripZeros(TimesBits(x.bits, n))
         IN  RoundToNearestEven(product, x.exp - Precision + Len(product))

RECURSIVE BitsValue(_)
BitsValue(bits) == IF bits = <<>> THEN 0 ELSE 2 * BitsValue(SubSeq(bits, 1, Len(bits) - 1)) + bits[Len(bits)]

\* Math.round(x) for 0 <= x < 2^30: the integer part, one more when the
\* fraction is a half or above
MathRound(x) ==
    IF x = FloatZero \/ x.exp < 0 THEN 0
    ELSE BitsValue(SubSeq(x.bits, 1, x.exp)) + x.bits[x.exp + 1]

\* x > y
BitsGreater(a, b) ==
    \E i \in 1..Len(a) : a[i] > b[i] /\ \A j \in 1..(i - 1) : a[j] = b[j]

FloatGreater(x, y) ==
    IF x = FloatZero THEN FALSE
    ELSE IF y = FloatZero THEN TRUE
    ELSE IF x.exp # y.exp THEN x.exp > y.exp
    ELSE BitsGreater(x.bits, y.bits)

(***************************************************************************)
(* Amounts at the output boundary                                          *)
(***************************************************************************)
\* c / 100 for an integer c >= 0, as the decimal units.cents
Dollars(c) == [units |-> c \div 100, cents |-> c % 100]

\* the minor units of a decimal
MinorUnits(r) == r.units * 100 + r.cents

SelectIdx(s, Test(_)) == {k \in 1..Len(s) : Test(s[k])}

\* the clock of an invocation is [now, tick, zone]; the read-th `new Date()`
ClockRead(clock, read) == Shift(clock.now, (read - 1) * clock.tick)

\* local time minus UTC at an instant, in milliseconds: a zone is its standard
\* and daylight-saving offsets and the instants from .. to between which the
\* daylight-saving one applies
OffsetAt(z, date) ==
    IF DateLeq(z.from, date) /\ ~DateLeq(z.to, date) THEN z.dst ELSE z.std

\* the instant of a local wall-clock time: of the two instants of a repeated
\* hour the earlier one, of a skipped hour the instant at the offset in force
\* before the change
FromLocal(z, wall) ==
    IF OffsetAt(z, Shift(wall, 0 - z.dst)) = z.dst THEN Shift(wall, 0 - z.dst)
    ELSE Shift(wall, 0 - z.std)

\* const getDaysAgo = (days) => { date = new Date(); date.setDate(date.getDate() - days) }
\* as the read-th reading of the clock
getDaysAgo(clock, read, days) ==
    LET date == ClockRead(clock, read)
        local == Shift(date, OffsetAt(clock.zone, date))
    IN  FromLocal(clock.zone, [local EXCEPT !.day = @ - days])

ThirtyDays == 30
NinetyDays == 90
TrendFirstOffset == 89
TopCount == 5

\* the readings in the order of the handler: now, thirtyDaysAgo,
\* ninetyDaysAgo, then one for each day of the trend
thirtyDaysAgo(clock) == getDaysAgo(clock, 2, ThirtyDays)
ninetyDaysAgo(clock) == getDaysAgo(clock, 3, NinetyDays)

(***************************************************************************)
(* MRR                                                                     *)
(***************************************************************************)
activeStatuses == {"active", "trialing"}

activeMemberships(memberships) ==
    SelectSeq(memberships, LAMBDA m : m.status \in activeStatuses)

\* planMap after plans.forEach(plan => { if (plan?.id) planMap.set(plan.id, plan) })
planMapGet(plans, id) ==
    LET hits == {k \in 1..Len(plans) : ~Falsy(plans[k].id) /\ plans[k].id = id}
    IN  IF hits = {} THEN Undefined
        ELSE plans[CHOOSE k \in hits : \A j \in hits : j <= k]

\* { ...(fallbackPlan ?? {}), ...(planDetails ?? {}) }
mergedPlan(membership, plans) ==
    LET fallbackPlan == membership.plan
        planId == IF Nullish(fallbackPlan) THEN Undefined ELSE fallbackPlan.id
        planDetails == IF Falsy(planId) THEN Undefined ELSE planMapGet(plans, planId)
    IN  [f \in PlanFields |->
            IF ~Nullish(planDetails) /\ planDetails[f] # Undefined THEN planDetails[f]
            ELSE IF ~Nullish(fallbackPlan) THEN fallbackPlan[f]
            ELSE Undefined]

\* plan.billing_period && plan.billing_period > 0 ? plan.billing_period : 1
billingPeriod(plan) ==
    IF ~Falsy(plan.billing_period) /\ plan.billing_period.v > 0
    THEN plan.billing_period.v
    ELSE 1

\* what one active membership adds to the sum
monthlyPrice(membership, plans) ==
    LET plan == mergedPlan(membership, plans)
        renewalPrice == IF Nullish(plan.renewal_price) THEN 0 ELSE plan.renewal_price.v
    IN  IF plan.plan_type # Str("renewal") THEN FloatZero
        ELSE FloatDiv(renewalPrice, billingPeriod(plan))

RECURSIVE SumMonthly(_, _)
SumMonthly(ms, plans) ==
    IF ms = <<>> THEN FloatZero
    ELSE FloatAdd(SumMonthly(Front(ms), plans), monthlyPrice(ms[Len(ms)], plans))

mrrCents(memberships, plans) == SumMonthly(activeMemberships(memberships), plans)

(***************************************************************************)
(* New subscriptions and churn                                             *)
(***************************************************************************)
InWindow(date, from, to) == date # Null /\ DateGeq(date, from) /\ DateLeq(date, to)

newSubscriptions(memberships, clock) ==
    Cardinality(SelectIdx(memberships,
        LAMBDA m : InWindow(parseTimestamp(m.created_at), thirtyDaysAgo(clock), clock.now)))

wasSubscribedThirtyDaysAgo(m, clock) ==
    LET createdAt == parseTimestamp(m.created_at)
        cancelledAt == parseTimestamp(m.canceled_at)
    IN  IF createdAt = Null \/ ~DateLeq(createdAt, thirtyDaysAgo(clock)) THEN FALSE
        ELSE IF cancelledAt # Null /\ DateLeq(cancelledAt, thirtyDaysAgo(clock)) THEN FALSE
        ELSE TRUE

subscribersThirtyDaysAgo(memberships, clock) ==
    Cardinality(SelectIdx(memberships, LAMBDA m : wasSubscribedThirtyDaysAgo(m, clock)))

wasCancelledInLast30Days(m, clock) ==
    InWindow(parseTimestamp(m.canceled_at), thirtyDaysAgo(clock), clock.now)

cancelledInLast30Days(memberships, clock) ==
    Cardinality(SelectIdx(memberships, LAMBDA m : wasCancelledInLast30Days(m, clock)))

\* (cancelledInLast30Days / subscribersThirtyDaysAgo) * 100, or 0
churnRate(memberships, clock) ==
    IF subscribersThirtyDaysAgo(memberships, clock) > 0
    THEN FloatTimes(FloatDiv(cancelledInLast30Days(memberships, clock),
                             subscribersThirtyDaysAgo(memberships, clock)), 100)
    ELSE FloatZero

(***************************************************************************)
(* Revenue trend                                                           *)
(***************************************************************************)
\* payment.usd_total ?? payment.total ?? payment.subtotal ?? 0
paymentTotal(payment) ==
    IF ~Nullish(payment.usd_total) THEN payment.usd_total.v
    ELSE IF ~Nullish(payment.total) THEN payment.total.v
    ELSE IF ~Nullish(payment.subtotal) THEN payment.subtotal.v
    ELSE 0

\* revenueByDay (date key -> minor units) after payments.forEach
RECURSIVE revenueByDay(_, _)
revenueByDay(payments, clock) ==
    IF payments = <<>> THEN [k \in {} |-> 0]
    ELSE LET map == revenueByDay(Front(payments), clock)
             payment == payments[Len(payments)]
             paymentDate == parseTimestamp(payment.created_at)
         IN  IF paymentDate = Null THEN map
             ELSE IF ~DateGeq(paymentDate, ninetyDaysAgo(clock)) \/ ~DateLeq(paymentDate, clock.now)
                  THEN map
             ELSE LET dateKey == IsoDate(paymentDate)
                      current == IF dateKey \in DOMAIN map THEN map[dateKey] ELSE 0
                  IN  [k \in DOMAIN map \cup {dateKey} |->
                          IF k = dateKey THEN current + paymentTotal(payment) ELSE map[k]]

\* for (let i = 89; i >= 0; i--): the j-th entry is the one of i = 90 - j, its
\* date that of the (3 + j)-th reading of the clock (date and dateKey are
\* bound, so each is computed once)
revenueTrend(payments, clock) ==
    LET map == revenueByDay(payments, clock)
    IN  [j \in 1..(TrendFirstOffset + 1) |->
            CHOOSE entry \in
                {[date |-> dateKey,
                  revenue |-> Dollars(IF dateKey \in DOMAIN map THEN map[dateKey] ELSE 0)] :
                    dateKey \in {IsoDate(date) :
                        date \in {getDaysAgo(clock, 3 + j, TrendFirstOffset + 1 - j)}}} : TRUE]

(***************************************************************************)
(* Top products                                                            *)
(***************************************************************************)
\* products.find(p => p.id === productId)?.title || `Product ${productId}`
productName(products, productId) ==
    LET hits == {k \in 1..Len(products) : products[k].id = productId}
        product == IF hits = {} THEN Undefined
                   ELSE products[CHOOSE k \in hits : \A j \in hits : k <= j]
    IN  IF Nullish(product) \/ Falsy(product.title)
        THEN [t |-> "label", prefix |-> "Product ", id |-> productId]
        ELSE product.title

\* productRevenueMap, as its entries in insertion order
RECURSIVE productRevenueMap(_, _, _)
productRevenueMap(payments, products, clock) ==
    IF payments = <<>> THEN <<>>
    ELSE LET map == productRevenueMap(Front(payments), products, clock)
             payment == payments[Len(payments)]
             paymentDate == parseTimestamp(payment.created_at)
             productId == IF Nullish(payment.product) THEN Undefined ELSE payment.product.id
             at == {k \in 1..Len(map) : map[k].id = productId}
             revenue == FloatDiv(paymentTotal(payment), 100)
         IN  IF ~InWindow(paymentDate, thirtyDaysAgo(clock), clock.now) THEN map
             ELSE IF Falsy(productId) THEN map
             ELSE IF at # {}
                  THEN [k \in 1..Len(map) |->
                          IF k \in at
                          THEN [map[k] EXCEPT !.revenue = FloatAdd(@, revenue)]
                          ELSE map[k]]
             ELSE Append(map, [id |-> productId,
                               name |-> productName(products, productId),
                               revenue |-> revenue])

\* entries.sort((a, b) => b.revenue - a.revenue): stable, descending
RECURSIVE sortByRevenue(_)
sortByRevenue(entries) ==
    IF entries = <<>> THEN <<>>
    ELSE LET sorted == sortByRevenue(Front(entries))
             e == entries[Len(entries)]
             ahead == {k \in 1..Len(sorted) : ~FloatGreater(e.revenue, sorted[k].revenue)}
             n == Cardinality(ahead)
         IN  SubSeq(sorted, 1, n) \o <<e>> \o SubSeq(sorted, n + 1, Len(sorted))

topProducts(payments, products, clock) ==
    LET sorted == sortByRevenue(productRevenueMap(payments, products, clock))
        top == SubSeq(sorted, 1, IF Len(sorted) < TopCount THEN Len(sorted) ELSE TopCount)
    IN  [k \in 1..Len(top) |-> [name |-> top[k].name, revenue |-> top[k].revenue]]

(***************************************************************************)
(* Responses                                                               *)
(***************************************************************************)
\* NextResponse.json({ metrics, revenueTrend, topProducts })
Snapshot(memberships, payments, products, plans, clock) ==
    [status |-> 200,
     body |-> [
        metrics |-> [
            mrr |-> Dollars(MathRound(mrrCents(memberships, plans))),
            churnRate |-> Dollars(MathRound(FloatTimes(churnRate(memberships, clock), 100))),
            newSubscriptions |-> newSubscriptions(memberships, clock),
            totalActiveSubscribers |-> Len(activeMemberships(memberships))],
        revenueTrend |-> revenueTrend(payments, clock),
        topProducts |-> topProducts(payments, products, clock)]]

\* the response when the company identifier is missing
ConfigError ==
    [status |-> 500,
     body |-> [error |-> "Missing Whop configuration",
               message |-> Str("NEXT_PUBLIC_WHOP_COMPANY_ID must be set to use the analytics dashboard.")]]

\* the response of the catch block
ErrorResponse(error) ==
    [status |-> 500,
     body |-> [error |-> "Failed to fetch analytics data",
               message |-> IF error.t = "Error" THEN error.message
                           ELSE Str("Unknown error")]]

IsSnapshot(r) == "metrics" \in DOMAIN r.body
IsError(r) == DOMAIN r.body = {"error", "message"} /\ r.status = 500

(***************************************************************************)
(* retryWithBackoff                                                        *)
(*                                                                         *)
(* A call of retryWithBackoff(fn, maxRetries, initialDelay) is a frame     *)
(*   pc            "unstarted" | "calling" (awaiting fn()) | "waiting"     *)
(*                 (awaiting the backoff timer) | "resolved" | "rejected"  *)
(*   i             the loop counter                                        *)
(*   lastError     the variable of that name                               *)
(*   settled       the value returned or the error thrown                  *)
(*   calls, waits  history: how often fn was executed, the delays awaited  *)
(***************************************************************************)
Collections == {"memberships", "payments", "products", "plans"}

DefaultMaxRetries == 3
DefaultInitialDelay == 1000

Frame(maxRetries, initialDelay) ==
    [pc |-> "unstarted", i |-> 0, maxRetries |-> maxRetries,
     initialDelay |-> initialDelay, lastError |-> Undefined, settled |-> Undefined,
     calls |-> 0, waits |-> <<>>]

\* the k-th call of the list operation of collection c fails with its own Error
ErrorOf(c, k) == [t |-> "Error", message |-> [operation |-> c, call |-> k]]

\* the page the list operation of collection c returns
PageOf(c) == [t |-> "page", data |-> Array(source[c])]

RECURSIVE Pow2(_)
Pow2(n) == IF n = 0 THEN 1 ELSE 2 * Pow2(n - 1)

\* initialDelay * Math.pow(2, i)
LinearDelay(f) == f.initialDelay * (f.i + 1)
BackoffDelay(f) == f.initialDelay * Pow2(f.i)

\* if (i < maxRetries - 1)
WaitsAfterEveryFailure(f) == TRUE
WaitsBeforeRetry(f) == f.i < f.maxRetries - 1

\* throw lastError
ThrowsFirstError(c, f) == ErrorOf(c, 1)
Thrown(c, f) == f.lastError

\* for (...; i < maxRetries; ...) { try { return await fn() ...  }  throw lastError
LoopHeadOneMore(c, f) ==
    IF f.i <= f.maxRetries
    THEN [f EXCEPT !.pc = "calling", !.calls = @ + 1]
    ELSE [f EXCEPT !.pc = "rejected", !.settled = Thrown(c, f)]
LoopHead(c, f) ==
    IF f.i < f.maxRetries
    THEN [f EXCEPT !.pc = "calling", !.calls = @ + 1]
    ELSE [f EXCEPT !.pc = "rejected", !.settled = Thrown(c, f)]

\* catch (error) { lastError = error; if (...) { delay = ...; await timer } }  i++
CatchSharedCounter(c, fs) ==
    [d \in Collections |->
        IF d = c
        THEN LET f == [fs[c] EXCEPT !.lastError = ErrorOf(c, fs[c].calls)]
             IN  IF WaitsBeforeRetry(f)
                 THEN [f EXCEPT !.pc = "waiting", !.waits = Append(@, BackoffDelay(f))]
                 ELSE LoopHead(c, [f EXCEPT !.i = @ + 1])
        ELSE IF fs[d].pc \in {"calling", "waiting"} /\ fs[d].i < fs[d].maxRetries - 1
             THEN [fs[d] EXCEPT !.i = @ + 1]
             ELSE fs[d]]
Catch(c, fs) ==
    [fs EXCEPT ![c] =
        LET f == [fs[c] EXCEPT !.lastError = ErrorOf(c, fs[c].calls)]
        IN  IF WaitsBeforeRetry(f)
            THEN [f EXCEPT !.pc = "waiting", !.waits = Append(@, BackoffDelay(f))]
            ELSE LoopHead(c, [f EXCEPT !.i = @ + 1])]

\* Promise.all([...]) after the promise of collection c settled
AllSettledStyle(a, fs, c) ==
    IF a.status # "pending" THEN a
    ELSE IF \A d \in Collections : fs[d].pc \in {"resolved", "rejected"}
         THEN [status |-> "fulfilled", reason |-> Undefined]
    ELSE a
PromiseAllNeverRejects(a, fs, c) ==
    IF a.status # "pending" THEN a
    ELSE IF \A d \in Collections : fs[d].pc = "resolved"
         THEN [status |-> "fulfilled", reason |-> Undefined]
    ELSE a
PromiseAll(a, fs, c) ==
    IF a.status # "pending" THEN a
    ELSE IF fs[c].pc = "rejected"
         THEN [status |-> "rejected", reason |-> fs[c].settled]
    ELSE IF \A d \in Collections : fs[d].pc = "resolved"
         THEN [status |-> "fulfilled", reason |-> Undefined]
    ELSE a

NoPromise == [status |-> "none", reason |-> Undefined]

NoCalls == [c \in Collections |-> 0]

Unused == UNCHANGED <<value, result>>

\* retryWithBackoff(fn, maxRetries, initialDelay) is called
RetryStart(c) ==
    /\ fetchers[c].pc = "unstarted"
    /\ fetchers' = [fetchers EXCEPT ![c] = LoopHead(c, @)]
    /\ all' = PromiseAll(all, fetchers', c)
    /\ UNCHANGED <<companyId, source, now, tick, zone, phase, emitted, callsAtResponse>>
    /\ Unused

\* the list operation answers: return await fn()
FnResolve(c) ==
    /\ fetchers[c].pc = "calling"
    /\ fetchers' = [fetchers EXCEPT ![c] = [@ EXCEPT !.pc = "resolved", !.settled = PageOf(c)]]
    /\ all' = PromiseAll(all, fetchers', c)
    /\ UNCHANGED <<companyId, source, now, tick, zone, phase, emitted, callsAtResponse>>
    /\ Unused

\* the list operation fails: the catch block
FnReject(c) ==
    /\ fetchers[c].pc = "calling"
    /\ fetchers' = Catch(c, fetchers)
    /\ all' = PromiseAll(all, fetchers', c)
    /\ UNCHANGED <<companyId, source, now, tick, zone, phase, emitted, callsAtResponse>>
    /\ Unused

\* the backoff timer fires: i++ and the next round of the loop
TimerFire(c) ==
    /\ fetchers[c].pc = "waiting"
    /\ fetchers' = [fetchers EXCEPT ![c] = LoopHead(c, [@ EXCEPT !.i = @ + 1])]
    /\ all' = PromiseAll(all, fetchers', c)
    /\ UNCHANGED <<companyId, source, now, tick, zone, phase, emitted, callsAtResponse>>
    /\ Unused

(***************************************************************************)
(* GET                                                                     *)
(***************************************************************************)
\* GET() up to its await: the configuration check, then the four fetches
GetInvokeUnchecked ==
    /\ phase = "Idle" /\ emitted = <<>> /\ all.status = "none"
    /\ fetchers' = [c \in Collections |-> LoopHead(c, fetchers[c])]
    /\ all' = [status |-> "pending", reason |-> Undefined]
    /\ phase' = "Fetching"
    /\ UNCHANGED <<companyId, source, now, tick, zone, emitted, callsAtResponse>>
    /\ Unused
GetInvoke ==
    /\ phase = "Idle" /\ emitted = <<>> /\ all.status = "none"
    /\ IF Falsy(companyId)
       THEN /\ emitted' = Append(emitted, ConfigError)
            /\ UNCHANGED <<phase, fetchers, all>>
       ELSE /\ fetchers' = [c \in Collections |-> LoopHead(c, fetchers[c])]
            /\ all' = [status |-> "pending", reason |-> Undefined]
            /\ phase' = "Fetching"
            /\ UNCHANGED emitted
    /\ UNCHANGED <<companyId, source, now, tick, zone, callsAtResponse>>
    /\ Unused

\* GET() from its await to its return
GetResumeTwice ==
    /\ Len(emitted) < 2
    /\ all.status \in {"fulfilled", "rejected"}
    /\ emitted' = Append(emitted,
            IF all.status = "fulfilled"
            THEN Snapshot(DataOf(fetchers["memberships"].settled),
                          DataOf(fetchers["payments"].settled),
                          DataOf(fetchers["products"].settled),
                          DataOf(fetchers["plans"].settled), Clock)
            ELSE ErrorResponse(all.reason))
    /\ phase' = "Idle"
    /\ callsAtResponse' = [c \in Collections |-> fetchers[c].calls]
    /\ UNCHANGED <<companyId, source, now, tick, zone, fetchers, all>>
    /\ Unused

GetResume ==
    /\ phase = "Fetching"
    /\ all.status \in {"fulfilled", "rejected"}
    /\ emitted' = Append(emitted,
            IF all.status = "fulfilled"
            THEN Snapshot(DataOf(fetchers["memberships"].settled),
                          DataOf(fetchers["payments"].settled),
                          DataOf(fetchers["products"].settled),
                          DataOf(fetchers["plans"].settled), Clock)
            ELSE ErrorResponse(all.reason))
    /\ phase' = "Idle"
    /\ callsAtResponse' = [c \in Collections |-> fetchers[c].calls]
    /\ UNCHANGED <<companyId, source, now, tick, zone, fetchers, all>>
    /\ Unused

(***************************************************************************)
(* Sample data                                                             *)
(***************************************************************************)
\* the clock: 2024-10-04T12:00:00.000Z
Noon == [valid |-> TRUE, day |-> 20000, ms |-> 43200000]

\* 2024-10-04T23:59:59.950Z and 2024-04-10T23:30:00.000Z
BeforeMidnight == [valid |-> TRUE, day |-> 20000, ms |-> 86399950]
LateEvening == [valid |-> TRUE, day |-> 19823, ms |-> 84600000]

\* time zones, with the daylight-saving rules of 2024: Europe/Berlin is UTC+1,
\* and UTC+2 from 2024-03-31T01:00Z to 2024-10-27T01:00Z
UTC == [std |-> 0, dst |-> 0, from |-> Noon, to |-> Noon]
Berlin ==
    [std |-> 3600000, dst |-> 7200000,
     from |-> [valid |-> TRUE, day |-> DaysFromCivil(2024, 3, 31), ms |-> 3600000],
     to |-> [valid |-> TRUE, day |-> DaysFromCivil(2024, 10, 27), ms |-> 3600000]]

\* a clock that stands still during the computation; one that advances a
\* millisecond from reading to reading; one that crosses midnight on the way;
\* one in a zone that changed its offset within the last 90 days
SteadyClock == [now |-> Noon, tick |-> 0, zone |-> UTC]
TickingClock == [now |-> Noon, tick |-> 1, zone |-> UTC]
MidnightClock == [now |-> BeforeMidnight, tick |-> 1, zone |-> UTC]
BerlinClock == [now |-> LateEvening, tick |-> 0, zone |-> Berlin]

\* epoch seconds of the instant `days` days and `secs` seconds before the clock
SecondsAgo(clock, days, secs) ==
    LimbsOf((clock.day - days) * 86400 + clock.ms \div 1000 - secs)

ProductRef(id) == [t |-> "product", id |-> Str(id)]

EmptySource ==
    [memberships |-> <<>>, payments |-> <<>>, products |-> <<>>, plans |-> <<>>]

SmallSource ==
    [memberships |-> <<
        Membership("active", Num(SecondsAgo(Noon, 40, 0)), Null,
                   Plan(Str("plan_q"), Undefined, Undefined, Undefined)),
        Membership("canceled", Num(SecondsAgo(Noon, 50, 0)), Num(SecondsAgo(Noon, 10, 0)),
                   Null)>>,
     payments |-> <<
        Payment(Num(SecondsAgo(Noon, 1, 0)), Int32(500), Undefined, Undefined,
                ProductRef("prod_1"))>>,
     products |-> <<Product(Str("prod_1"), Str("Pro"))>>,
     plans |-> <<Plan(Str("plan_q"), Str("renewal"), Int32(300), Int32(90))>>]

Sources == {EmptySource, SmallSource}

CompanyIds == {Undefined, Str(""), Str("biz_1")}

IdleFetchers == [c \in Collections |-> Frame(DefaultMaxRetries, DefaultInitialDelay)]

\* no GET invocation
NoRequest ==
    /\ companyId = Str("biz_1")
    /\ phase = "Idle"
    /\ all = NoPromise
    /\ emitted = <<>>
    /\ callsAtResponse = NoCalls

(***************************************************************************)
(* The route: one GET invocation                                           *)
(***************************************************************************)
Init ==
    /\ companyId \in CompanyIds
    /\ source \in Sources
    /\ \E c \in {SteadyClock, TickingClock, BerlinClock} : ClockIs(c)
    /\ phase = "Idle"
    /\ fetchers = IdleFetchers
    /\ all = NoPromise
    /\ emitted = <<>>
    /\ callsAtResponse = NoCalls
    /\ value = Undefined
    /\ result = Pending

Next ==
    \/ GetInvoke
    \/ \E c \in Collections : FnResolve(c)
    \/ \E c \in Collections : FnReject(c)
    \/ \E c \in Collections : TimerFire(c)
    \/ GetResume

Spec == Init /\ [][Next]_vars

\* every data-source call settles, every timer fires, the awaiting GET is resumed
Fairness ==
    /\ \A c \in Collections : WF_vars(FnResolve(c) \/ FnReject(c))
    /\ \A c \in Collections : WF_vars(TimerFire(c))
    /\ WF_vars(GetResume)

\* termination does not depend on the records listed: the empty collections
InitFair == Init /\ source = EmptySource /\ ClockIs(SteadyClock)

FairSpec == InitFair /\ [][Next]_vars /\ Fairness

(***************************************************************************)
(* retryWithBackoff in isolation                                           *)
(***************************************************************************)
MaxAttempts == 4
InitialDelays == {1, 250, 1000, 1500}
Subject == "memberships"

InitRetry ==
    /\ NoRequest
    /\ source = SmallSource
    /\ ClockIs(SteadyClock)
    /\ \E m \in 1..MaxAttempts, d \in InitialDelays :
          fetchers = [IdleFetchers EXCEPT ![Subject] = Frame(m, d)]
    /\ value = Undefined
    /\ result = Pending

NextRetry ==
    \/ RetryStart(Subject)
    \/ FnResolve(Subject)
    \/ FnReject(Subject)
    \/ TimerFire(Subject)

SpecRetry == InitRetry /\ [][NextRetry]_vars

(***************************************************************************)
(* Properties of retryWithBackoff                                          *)
(***************************************************************************)
Started(f) == f.pc # "unstarted"

\* C1: after the k-th failed attempt, k < maxRetries, the wrapper waits exactly
\* initialDelay * 2^(k-1) before attempt k+1; no wait follows a successful
\* attempt, and none follows the last (maxRetries-th) failed attempt.
C1_BackoffDelays ==
    \A c \in Collections :
        LET f == fetchers[c]
        IN  /\ \A k \in 1..Len(f.waits) : f.waits[k] = f.initialDelay * Pow2(k - 1)
            /\ f.pc = "waiting" => Len(f.waits) = f.calls /\ f.calls < f.maxRetries
            /\ f.pc = "calling" => Len(f.waits) = f.calls - 1
            /\ f.pc = "resolved" => Len(f.waits) = f.calls - 1
            /\ f.pc = "rejected" => Len(f.waits) = f.maxRetries - 1

\* three failures, then success at the fourth attempt: the waits were
\* initialDelay, 2 * initialDelay, 4 * initialDelay, and none after the success
C1_Witness ==
    LET f == fetchers[Subject]
    IN  /\ f.pc = "resolved" /\ f.calls = 4 /\ f.initialDelay = 250
        /\ f.waits = <<250, 500, 1000>>

\* C2: when every attempt fails the operation is executed exactly maxRetries
\* times and the wrapper fails with the error of the last attempt, unchanged;
\* when attempt k succeeds the wrapper returns that attempt's value and the
\* operation was executed exactly k times.
C2_LastErrorOrValue ==
    \A c \in Collections :
        LET f == fetchers[c]
        IN  /\ f.calls <= f.maxRetries
            /\ f.pc = "rejected" =>
                  /\ f.calls = f.maxRetries
                  /\ f.settled = ErrorOf(c, f.maxRetries)
            /\ f.pc = "resolved" =>
                  /\ f.settled = PageOf(c)
                  /\ f.calls = f.i + 1
                  /\ f.calls = Len(f.waits) + 1

\* three attempts (the default), all failed
C2_Witness ==
    LET f == fetchers[Subject]
    IN  /\ f.pc = "rejected" /\ f.maxRetries = DefaultMaxRetries
        /\ f.calls = 3 /\ f.settled = ErrorOf(Subject, 3)

(***************************************************************************)
(* Properties of GET                                                       *)
(***************************************************************************)
FullSnapshot ==
    Snapshot(source.memberships, source.payments, source.products, source.plans, Clock)

Exhausted(c) == fetchers[c].pc = "rejected"

\* C3: a snapshot is emitted only when all four fetches have completed
\* successfully, and it is computed from the four complete collections; when a
\* fetch is exhausted the response is the error payload {error, message} with
\* status 500, without metrics, revenueTrend or topProducts.
C3_AllOrNothing ==
    \A k \in 1..Len(emitted) :
        LET r == emitted[k]
        IN  /\ IsSnapshot(r) =>
                  /\ \A c \in Collections : fetchers[c].pc = "resolved"
                  /\ r = FullSnapshot
            /\ (\E c \in Collections : Exhausted(c)) =>
                  /\ IsError(r)
                  /\ DOMAIN r.body \cap {"metrics", "revenueTrend", "topProducts"} = {}
            /\ IsSnapshot(r) \/ IsError(r)

\* a snapshot of non-empty data, after a retried fetch
C3_Witness ==
    /\ Len(emitted) = 1 /\ IsSnapshot(emitted[1])
    /\ source = SmallSource
    /\ fetchers["payments"].calls = 3
    /\ emitted[1].body.metrics.totalActiveSubscribers = 1

\* what a step that records a failed attempt of collection c leaves alone
FailureIsLocal ==
    \A c \in Collections :
        fetchers'[c].lastError # fetchers[c].lastError =>
            \A d \in Collections \ {c} : fetchers'[d] = fetchers[d]

\* C4: a failed attempt of one collection consumes no attempt of another and
\* changes no other collection's result; the invocation fails if and only if
\* some collection's retryWithBackoff has exhausted its attempts.
C4_IndependentRetries ==
    /\ [][FailureIsLocal]_vars
    /\ [](all.status = "rejected" <=> \E c \in Collections : Exhausted(c))
    /\ [](\A c \in Collections : Exhausted(c) => fetchers[c].calls = fetchers[c].maxRetries)
    /\ []((emitted # <<>> /\ ~Falsy(companyId)) =>
            (IsError(emitted[1]) <=> \E c \in Collections : Exhausted(c)))

\* one collection exhausted, another one answered after a failure of its own
C4_Witness ==
    /\ Len(emitted) = 1 /\ IsError(emitted[1])
    /\ Exhausted("plans")
    /\ fetchers["payments"].pc = "resolved" /\ fetchers["payments"].calls = 2
    /\ fetchers["memberships"].pc = "resolved" /\ fetchers["memberships"].calls = 1

\* C5: without a company identifier GET emits the configuration error (status
\* 500, {error, message}) and never starts fetching: no list operation is
\* called, no backoff is awaited, no snapshot is emitted.
C5_ConfigurationError ==
    Falsy(companyId) =>
        /\ phase = "Idle"
        /\ all = NoPromise
        /\ \A c \in Collections :
              /\ fetchers[c].calls = 0
              /\ fetchers[c].waits = <<>>
              /\ ~Started(fetchers[c])
        /\ \A k \in 1..Len(emitted) :
              /\ emitted[k] = ConfigError
              /\ IsError(emitted[k])
              /\ ~IsSnapshot(emitted[k])

C5_Witness ==
    /\ companyId = Str("")
    /\ emitted = <<ConfigError>>

\* the edges of Idle -> Fetching -> {Succeeded, Failed} -> Idle
PhaseEdges ==
    phase' # phase =>
        \/ phase = "Idle" /\ phase' = "Fetching" /\ emitted' = <<>>
        \/ /\ phase = "Fetching" /\ phase' = "Idle"
           /\ Len(emitted') = 1
           /\ IsSnapshot(emitted'[1]) \/ IsError(emitted'[1])

\* C6: an invocation that is fetching eventually emits its response and is
\* Idle again; every retry loop ends, after at most maxRetries attempts.
C6_Terminates ==
    /\ [][PhaseEdges]_vars
    /\ (phase = "Fetching") ~> (phase = "Idle" /\ Len(emitted) = 1)
    /\ (phase = "Fetching") ~>
          (\A c \in Collections : fetchers[c].pc \in {"resolved", "rejected"})
    /\ [](\A c \in Collections : fetchers[c].calls <= fetchers[c].maxRetries)

\* responded and Idle, after a fetch that used all its attempts
C6_Witness ==
    /\ phase = "Idle" /\ Len(emitted) = 1
    /\ \A c \in Collections : fetchers[c].pc \in {"resolved", "rejected"}
    /\ fetchers["products"].calls = DefaultMaxRetries
    /\ fetchers["products"].pc = "rejected"

\* what a step leaves alone once a response has been returned
ResponseIsFinal == emitted # <<>> => emitted' = emitted

\* a fetch in flight can still be answered, a backoff awaited can still end
NotCancelled(c) ==
    /\ fetchers[c].pc = "calling" => ENABLED FnResolve(c) /\ ENABLED FnReject(c)
    /\ fetchers[c].pc = "waiting" => ENABLED TimerFire(c)

\* C12: an invocation returns one response and that response is final: the
\* fetches still under way when it is returned are not cancelled, they go on
\* calling the data source, each at most maxRetries times, and whatever they
\* end with neither returns a second response nor changes the one returned.
C12_OneFinalResponse ==
    /\ [](Len(emitted) <= 1)
    /\ []((phase = "Idle" /\ all.status # "none") => Len(emitted) = 1)
    /\ [][ResponseIsFinal]_vars
    /\ [](\A c \in Collections : NotCancelled(c))
    /\ [](\A c \in Collections :
            /\ callsAtResponse[c] <= fetchers[c].calls
            /\ fetchers[c].calls <= fetchers[c].maxRetries)

\* the error of the exhausted plans fetch was returned while the payments and
\* the memberships fetches had made one call each; afterwards the former made
\* two more calls and failed for good, the latter one more and succeeded
C12_Witness ==
    /\ phase = "Idle"
    /\ emitted = <<ErrorResponse(ErrorOf("plans", DefaultMaxRetries))>>
    /\ callsAtResponse["payments"] = 1 /\ callsAtResponse["memberships"] = 1
    /\ fetchers["payments"].pc = "rejected" /\ fetchers["payments"].calls = 3
    /\ fetchers["memberships"].pc = "resolved" /\ fetchers["memberships"].calls = 2

(***************************************************************************)
(* Bounded inputs of the functions applied in isolation                    *)
(***************************************************************************)
SeqsUpTo(S, n) == UNION {[1..k -> S] : k \in 0..n}

\* the GET variables, unused
NoInvocation == NoRequest /\ fetchers = IdleFetchers

(***************************************************************************)
(* parseTimestamp in isolation: t and t * 1000                             *)
(***************************************************************************)
MaxLimbs == 5
LimbValues == {0, 1, 999}

\* the integers 0 <= n < 1000^MaxLimbs written with the limbs 0, 1 and 999
SampleNumbers ==
    {x \in SeqsUpTo(LimbValues, MaxLimbs) : Len(x) = 0 \/ x[Len(x)] # 0}

NumericValues == {Num(n) : n \in SampleNumbers} \cup {Digits(n) : n \in SampleNumbers}

\* t * 1000, in the form t was given in
Scaled(v) == [v EXCEPT !.n = Times1000(@)]

InitTimestamp ==
    /\ NoInvocation
    /\ source = EmptySource
    /\ ClockIs(SteadyClock)
    /\ value \in NumericValues
    /\ result = Pending

ApplyParseTimestamp ==
    /\ result = Pending
    /\ result' = [t |-> "parsed",
                  seconds |-> parseTimestamp(value),
                  millis |-> parseTimestamp(Scaled(value))]
    /\ UNCHANGED <<companyId, source, now, tick, zone, phase, fetchers, all, emitted, callsAtResponse, value>>

SpecTimestamp == InitTimestamp /\ [][ApplyParseTimestamp]_vars

\* t seconds is an instant a Date can hold
ValidSeconds(n) == ~Greater(Times1000(n), MaxTime)

Billion == <<0, 0, 0, 1>>

\* C7 as stated: for every valid epoch-seconds t, parseTimestamp(t) equals
\* parseTimestamp(t * 1000).
C7_AsStated ==
    (result.t = "parsed" /\ ValidSeconds(value.n)) => result.seconds = result.millis

\* C7: numbers greater than 10^12 are read as milliseconds, all others as
\* seconds; so parseTimestamp(t) equals parseTimestamp(t * 1000), the instant
\* t seconds after the epoch, for every t with 10^9 < t <= 10^12 (and for 0).
C7_SecondsMillisEquivalence ==
    result.t = "parsed" =>
        /\ result.seconds = (IF Greater(value.n, MsThreshold)
                             THEN (IF NewDate(value.n).valid THEN NewDate(value.n) ELSE Null)
                             ELSE NewDate(Times1000(value.n)))
        /\ (Greater(value.n, Billion) /\ ~Greater(value.n, MsThreshold)) =>
              /\ result.seconds = result.millis
              /\ result.seconds = NewDate(Times1000(value.n))
        /\ value.n = <<>> => result.seconds = result.millis

\* t = 1_999_999_999 (2033-05-18T03:33:19Z), as a number
C7_Witness ==
    /\ result.t = "parsed"
    /\ value = Num(<<999, 999, 999, 1>>)
    /\ result.seconds = result.millis
    /\ result.seconds = [valid |-> TRUE, day |-> 23148, ms |-> 12799000]

(***************************************************************************)
(* MRR in isolation                                                        *)
(***************************************************************************)
MaxMemberships == 2

PlanRef(id) == Plan(Str(id), Undefined, Undefined, Undefined)

ListedPlans ==
    <<Plan(Str("plan_q"), Str("renewal"), Int32(300), Int32(90)),
      Plan(Str("plan_m"), Str("renewal"), Int32(1000), Int32(30)),
      Plan(Str("plan_once"), Str("one_time"), Int32(5000), Null)>>

EmbeddedPlans ==
    {Null,
     Plan(Undefined, Str("renewal"), Int32(1000), Null),
     Plan(Undefined, Str("renewal"), Int32(700), Int32(7)),
     PlanRef("plan_q"), PlanRef("plan_m"), PlanRef("plan_once")}

MrrMemberships ==
    {Membership(st, Null, Null, pl) :
        st \in {"active", "trialing", "canceled"}, pl \in EmbeddedPlans}

InitMrr ==
    /\ NoInvocation
    /\ ClockIs(SteadyClock)
    /\ \E ms \in SeqsUpTo(MrrMemberships, MaxMemberships), ps \in {<<>>, ListedPlans} :
          source = [EmptySource EXCEPT !.memberships = ms, !.plans = ps]
    /\ value = Undefined
    /\ result = Pending

ApplyMrr ==
    /\ result = Pending
    /\ result' = [t |-> "mrr",
                  mrrCents |-> mrrCents(source.memberships, source.plans),
                  mrr |-> Dollars(MathRound(mrrCents(source.memberships, source.plans)))]
    /\ UNCHANGED <<companyId, source, now, tick, zone, phase, fetchers, all, emitted, callsAtResponse, value>>

SpecMrr == InitMrr /\ [][ApplyMrr]_vars

\* the stated amounts are exact rationals n / d in lowest terms
RECURSIVE GCD(_, _)
GCD(a, b) == IF b = 0 THEN a ELSE GCD(b, a % b)
Frac(n, d) == [n |-> n \div GCD(n, d), d |-> d \div GCD(n, d)]
FracAdd(a, b) == Frac(a.n * b.d + b.n * a.d, a.d * b.d)

\* the whole numbers next to x: x rounded down and x rounded up
WholeNumbersAt(x) == {x.n \div x.d, (x.n + x.d - 1) \div x.d}

\* the billing period in months: days / 30, one month when absent or not positive
billingPeriodInMonths(plan) ==
    IF ~Nullish(plan.billing_period) /\ plan.billing_period.v > 0
    THEN Frac(plan.billing_period.v, ThirtyDays)
    ELSE Frac(1, 1)

\* renewalPrice divided by the billing period in months
StatedMonthly(membership, plans) ==
    LET plan == mergedPlan(membership, plans)
        renewalPrice == IF Nullish(plan.renewal_price) THEN 0 ELSE plan.renewal_price.v
        months == billingPeriodInMonths(plan)
    IN  IF membership.status \notin {"active", "trialing"} THEN Frac(0, 1)
        ELSE IF plan.plan_type # Str("renewal") THEN Frac(0, 1)
        ELSE Frac(renewalPrice * months.d, months.n)

RECURSIVE StatedMrr(_, _)
StatedMrr(ms, plans) ==
    IF ms = <<>> THEN Frac(0, 1)
    ELSE FracAdd(StatedMrr(Front(ms), plans), StatedMonthly(ms[Len(ms)], plans))

\* C8: every active or trialing membership whose effective plan is a renewal
\* plan contributes renewalPrice / (billing period in days / 30), one month
\* when the period is absent or not positive; 300 every 90 days is 100 a month.
\* The MRR in minor units is the sum of these contributions, rounded to a
\* whole minor unit.
C8_MonthlyNormalization ==
    result.t = "mrr" =>
        MinorUnits(result.mrr) \in WholeNumbersAt(StatedMrr(source.memberships, source.plans))

(***************************************************************************)
(* Churn in isolation                                                      *)
(***************************************************************************)
MaxChurnMemberships == 2

\* created 31 days ago; exactly 30 days ago (in milliseconds); one second
\* later; 29 days ago (as an ISO string); "not-a-date"
CreatedSamples ==
    {Text,
     Num(SecondsAgo(Noon, 31, 0)),
     Num(Times1000(SecondsAgo(Noon, 30, 0))),
     Num(SecondsAgo(Noon, 30, -1)),
     Iso(2024, 9, 5, 43200000)}

\* never canceled; canceled one second before now-30d; exactly at now-30d;
\* exactly now; one second after now
CanceledSamples ==
    {Null,
     Num(SecondsAgo(Noon, 30, 1)),
     Digits(SecondsAgo(Noon, 30, 0)),
     Num(SecondsAgo(Noon, 0, 0)),
     Num(SecondsAgo(Noon, 0, -1))}

ChurnMemberships ==
    {Membership(st, cr, ca, Null) :
        st \in {"active", "canceled"}, cr \in CreatedSamples, ca \in CanceledSamples}

InitChurn ==
    /\ NoInvocation
    /\ \E c \in {SteadyClock, TickingClock} : ClockIs(c)
    /\ \E ms \in SeqsUpTo(ChurnMemberships, MaxChurnMemberships) :
          source = [EmptySource EXCEPT !.memberships = ms]
    /\ value = Undefined
    /\ result = Pending

ApplyChurn ==
    /\ result = Pending
    /\ result' = [t |-> "churn",
                  churnRate |-> churnRate(source.memberships, Clock),
                  subscribers |-> subscribersThirtyDaysAgo(source.memberships, Clock),
                  cancelled |-> cancelledInLast30Days(source.memberships, Clock)]
    /\ UNCHANGED <<companyId, source, now, tick, zone, phase, fetchers, all, emitted, callsAtResponse, value>>

SpecChurn == InitChurn /\ [][ApplyChurn]_vars

\* the instant a timestamp field denotes, Null when it denotes none
InstantOf(v) == parseTimestamp(v)
OnOrBefore(v, date) == InstantOf(v) # Null /\ DateLeq(InstantOf(v), date)
OnOrAfter(v, date) == InstantOf(v) # Null /\ DateLeq(date, InstantOf(v))

\* now - 30 days
ThirtyDaysBefore(clock) == [valid |-> TRUE, day |-> clock.day - 30, ms |-> clock.ms]

LiveThirtyDaysAgo ==
    {k \in 1..Len(source.memberships) :
        /\ OnOrBefore(source.memberships[k].created_at, ThirtyDaysBefore(now))
        /\ ~OnOrBefore(source.memberships[k].canceled_at, ThirtyDaysBefore(now))}

CanceledInWindow ==
    {k \in 1..Len(source.memberships) :
        /\ OnOrAfter(source.memberships[k].canceled_at, ThirtyDaysBefore(now))
        /\ OnOrBefore(source.memberships[k].canceled_at, now)}

\* C10: churn is (memberships of any status canceled within [now-30d, now]) /
\* (memberships created on or before now-30d and not canceled on or before
\* now-30d) * 100 when the denominator is positive, and exactly 0, never NaN or
\* a division error, when it is 0.
C10_ChurnRate ==
    result.t = "churn" =>
        result.churnRate =
            (IF Cardinality(LiveThirtyDaysAgo) > 0
             THEN FloatTimes(FloatDiv(Cardinality(CanceledInWindow),
                                      Cardinality(LiveThirtyDaysAgo)), 100)
             ELSE FloatZero)

(***************************************************************************)
(* Revenue trend in isolation                                              *)
(***************************************************************************)
MaxPayments == 2

\* unknown; ""; six hours after now-90d, on the calendar day of now-90d; one
\* second before now-90d; now-89d; an hour ago; in an hour; today at midnight
PaidSamples ==
    {Null, Blank,
     Num(SecondsAgo(Noon, 90, -21600)),
     Num(SecondsAgo(Noon, 90, 1)),
     Num(SecondsAgo(Noon, 89, 0)),
     Num(SecondsAgo(Noon, 0, 3600)),
     Num(SecondsAgo(Noon, 0, -3600)),
     Iso(2024, 10, 4, 0)}

TrendPayments ==
    {Payment(at, Int32(500), Int32(40), Undefined, Null) : at \in PaidSamples}
    \cup {Payment(at, Null, Int32(200), Int32(300), Null) : at \in PaidSamples}
    \cup {Payment(at, Undefined, Undefined, Undefined, Null) : at \in PaidSamples}

InitTrend ==
    /\ NoInvocation
    /\ \E c \in {SteadyClock, TickingClock, MidnightClock, BerlinClock} : ClockIs(c)
    /\ \E ps \in SeqsUpTo(TrendPayments, MaxPayments) :
          source = [EmptySource EXCEPT !.payments = ps]
    /\ value = Undefined
    /\ result = Pending

ApplyTrend ==
    /\ result = Pending
    /\ result' = [t |-> "trend", revenueTrend |-> revenueTrend(source.payments, Clock)]
    /\ UNCHANGED <<companyId, source, now, tick, zone, phase, fetchers, all, emitted, callsAtResponse, value>>

SpecTrend == InitTrend /\ [][ApplyTrend]_vars

\* a < b on calendar dates <<year, month, day>>
DateBefore(a, b) ==
    \/ a[1] < b[1]
    \/ a[1] = b[1] /\ a[2] < b[2]
    \/ a[1] = b[1] /\ a[2] = b[2] /\ a[3] < b[3]

RECURSIVE BucketSum(_)
BucketSum(trend) ==
    IF trend = <<>> THEN 0
    ELSE BucketSum(Front(trend)) + MinorUnits(trend[Len(trend)].revenue)

\* now - 90 days
NinetyDaysBefore(clock) == [valid |-> TRUE, day |-> clock.day - 90, ms |-> clock.ms]

\* usd_total, then total, then subtotal, else 0
StatedAmount(payment) ==
    IF ~Nullish(payment.usd_total) THEN payment.usd_total.v
    ELSE IF ~Nullish(payment.total) THEN payment.total.v
    ELSE IF ~Nullish(payment.subtotal) THEN payment.subtotal.v
    ELSE 0

RECURSIVE WindowTotal(_, _)
WindowTotal(payments, clock) ==
    IF payments = <<>> THEN 0
    ELSE WindowTotal(Front(payments), clock)
         + (LET payment == payments[Len(payments)]
            IN  IF /\ OnOrAfter(payment.created_at, NinetyDaysBefore(clock))
                   /\ OnOrBefore(payment.created_at, clock)
                THEN StatedAmount(payment) ELSE 0)

\* C9: the trend has exactly 90 entries with strictly ascending dates, and its
\* bucket revenues add up to the total of all payments whose created-at instant
\* lies in [now-90d, now]: none is dropped, none is counted twice.
C9_TrendConservation ==
    result.t = "trend" =>
        /\ Len(result.revenueTrend) = 90
        /\ \A j \in 1..(Len(result.revenueTrend) - 1) :
              DateBefore(result.revenueTrend[j].date, result.revenueTrend[j + 1].date)
        /\ BucketSum(result.revenueTrend) = WindowTotal(source.payments, now)

(***************************************************************************)
(* Top products in isolation                                               *)
(***************************************************************************)
MaxTopPayments == 3

Catalogue == <<Product(Str("prod_1"), Str("Pro")), Product(Str("prod_2"), Str("Plus"))>>

\* an hour ago: 10 and 20 for prod_1, 30 for prod_2, 30 for prod_3 (not in the
\* catalogue), 40 without a product, 700 for the product id ""; 500 for prod_2
\* 31 days ago; 900 for prod_1 at an unknown instant
TopPayments ==
    {Payment(Num(SecondsAgo(Noon, 0, 3600)), Int32(10), Undefined, Undefined, ProductRef("prod_1")),
     Payment(Num(SecondsAgo(Noon, 0, 3600)), Int32(20), Undefined, Undefined, ProductRef("prod_1")),
     Payment(Num(SecondsAgo(Noon, 0, 3600)), Null, Int32(30), Undefined, ProductRef("prod_2")),
     Payment(Num(SecondsAgo(Noon, 0, 3600)), Int32(30), Undefined, Undefined, ProductRef("prod_3")),
     Payment(Num(SecondsAgo(Noon, 0, 3600)), Int32(40), Undefined, Undefined, Null),
     Payment(Num(SecondsAgo(Noon, 0, 3600)), Int32(700), Undefined, Undefined, ProductRef("")),
     Payment(Num(SecondsAgo(Noon, 31, 0)), Int32(500), Undefined, Undefined, ProductRef("prod_2")),
     Payment(Null, Int32(900), Undefined, Undefined, ProductRef("prod_1"))}

\* six products, one payment each, of six different amounts in every order
SixProducts == <<"prod_1", "prod_2", "prod_3", "prod_4", "prod_5", "prod_6">>
SixAmounts == <<1999, 250, 4999, 100, 33, 700>>

SixPayments ==
    {[k \in 1..Len(SixProducts) |->
         Payment(Num(SecondsAgo(Noon, k, 0)), Int32(SixAmounts[order[k]]), Undefined, Undefined,
                 ProductRef(SixProducts[k]))] :
       order \in {f \in [1..Len(SixProducts) -> 1..Len(SixAmounts)] :
                     \A i, j \in 1..Len(SixProducts) : f[i] = f[j] => i = j}}

InitTop ==
    /\ NoInvocation
    /\ ClockIs(SteadyClock)
    /\ \E ps \in SeqsUpTo(TopPayments, MaxTopPayments) \cup SixPayments :
          source = [EmptySource EXCEPT !.payments = ps, !.products = Catalogue]
    /\ value = Undefined
    /\ result = Pending

ApplyTop ==
    /\ result = Pending
    /\ result' = [t |-> "top",
                  topProducts |-> topProducts(source.payments, source.products, Clock)]
    /\ UNCHANGED <<companyId, source, now, tick, zone, phase, fetchers, all, emitted, callsAtResponse, value>>

SpecTop == InitTop /\ [][ApplyTop]_vars

\* the product id of a payment, Null when it has none
StatedProductId(payment) ==
    IF Nullish(payment.product) THEN Null
    ELSE IF Nullish(payment.product.id) \/ payment.product.id = Str("") THEN Null
    ELSE payment.product.id

\* the payments that count: created within [now-30d, now], with a product id
Counted ==
    {k \in 1..Len(source.payments) :
        /\ OnOrAfter(source.payments[k].created_at, ThirtyDaysBefore(now))
        /\ OnOrBefore(source.payments[k].created_at, now)
        /\ StatedProductId(source.payments[k]) # Null}

CountedIds == {StatedProductId(source.payments[k]) : k \in Counted}

\* accumulated revenue of a product, in minor units
RECURSIVE AmountOver(_, _)
AmountOver(ks, id) ==
    IF ks = {} THEN 0
    ELSE LET k == CHOOSE j \in ks : TRUE
         IN  (IF StatedProductId(source.payments[k]) = id
              THEN StatedAmount(source.payments[k]) ELSE 0)
             + AmountOver(ks \ {k}, id)

AccumulatedRevenue(id) == AmountOver(Counted, id)

FirstEncounter(id) ==
    CHOOSE k \in Counted :
        /\ StatedProductId(source.payments[k]) = id
        /\ \A j \in Counted : StatedProductId(source.payments[j]) = id => k <= j

\* a comes before b: more revenue, or as much and encountered first
Outranks(a, b) ==
    \/ AccumulatedRevenue(a) > AccumulatedRevenue(b)
    \/ AccumulatedRevenue(a) = AccumulatedRevenue(b) /\ FirstEncounter(a) < FirstEncounter(b)

Rank(id) == 1 + Cardinality({other \in CountedIds : Outranks(other, id)})

\* C11: the output has one entry per product id of the counted payments, at
\* most 5, ordered by accumulated revenue descending with ties in the order of
\* first encounter: its k-th entry is the product that exactly k-1 products
\* outrank, so every omitted product has no more revenue than any included.
C11_TopProducts ==
    result.t = "top" =>
        /\ Len(result.topProducts) =
              (IF Cardinality(CountedIds) < 5 THEN Cardinality(CountedIds) ELSE 5)
        /\ \A k \in 1..Len(result.topProducts) :
              \E id \in CountedIds :
                  /\ Rank(id) = k
                  /\ result.topProducts[k].name = productName(source.products, id)

====
